---- MODULE Spec2Model ----
(***************************************************************************)
(* Model of the dependency-aware orchestrator execute_dynamic_task         *)
(* (src/flyte_dynamic.py).  A plan is a list of AgentStep; the scheduling  *)
(* loop repeatedly selects the pending steps whose dependencies are all    *)
(* recorded, runs them concurrently through asyncio.gather, stores their   *)
(* AgentExecution records and finally assembles the TaskResult.            *)
(*                                                                         *)
(* The chain interpreter execute_plan (src/utils/plan_executor.py) is      *)
(* modelled beside it and runs on its own under ChainSpec: a chain of tool *)
(* calls is executed in order, "previous" standing for the latest output.  *)
(*                                                                         *)
(* Text is modelled as a sequence of tokens: "" is <<>>, concatenation is  *)
(* \o, and an f-string is the sequence of its literal and formatted parts. *)
(***************************************************************************)
EXTENDS Integers, Sequences, FiniteSets, TLC

(* ------------------------------ bounds --------------------------------- *)
\* longest plan the planner returns
MaxSteps == 3
\* longest dependency list of one step
MaxDeps == 2
\* most dependency entries in a whole plan
MaxEdges == 2
\* longest chain of tool calls handed to execute_plan
MaxOps == 2
\* largest number a tool call of a chain may produce
MaxValue == 30
\* longest text, in tokens, a tool call of a chain may produce
MaxTextLen == 6

(* ------------------------------ text ----------------------------------- *)
Digits == <<"0", "1", "2", "3", "4", "5", "6", "7", "8", "9">>

\* str(i) of a small non-negative integer, as formatted by an f-string
IntStr(i) == <<Digits[i + 1]>>

RECURSIVE StrJoin(_, _)
\* sep.join(parts)
StrJoin(sep, parts) ==
    IF parts = <<>> THEN <<>>
    ELSE IF Len(parts) = 1 THEN parts[1]
    ELSE parts[1] \o sep \o StrJoin(sep, Tail(parts))

(* ------------------------------ plans ---------------------------------- *)
\* the agents execute_step routes to
KnownAgents == {"math", "string", "web_search", "code", "weather"}

\* agent names the planner may put in a plan: known ones and an unknown one
AgentNames == {"math", "bogus"}

TaskTexts == <<"task0", "task1", "task2", "task3", "task4", "task5">>

\* the task text the planner wrote for the step declared at index i
TaskOf(i) == <<TaskTexts[i + 1]>>

\* dependency ids the planner may emit; an id >= the plan's length is dangling
DepIds == 0 .. MaxSteps - 1

DepLists == UNION {[1 .. k -> DepIds] : k \in 0 .. MaxDeps}

\* AgentStep(agent, task, dependencies)
AgentStep(a, t, d) == [agent |-> a, task |-> t, dependencies |-> d]

RECURSIVE NumEdges(_)
\* dependency entries in a list of steps
NumEdges(plan) ==
    IF plan = <<>> THEN 0
    ELSE Len(Head(plan).dependencies) + NumEdges(Tail(plan))

(* ------------------------------ workers -------------------------------- *)
OutputTexts == <<"out0", "out1", "out2", "out3", "out4", "out5">>

\* the text a worker produces for the step at index i when its chain succeeds
OutputOf(i) == <<OutputTexts[i + 1]>>

\* the error text a worker's failed chain reports
ChainError == <<"chain failed">>

\* what an agent task returns for step i: (final_result, error)
\*   a successful chain, a successful chain with empty text, a failed chain
AgentReturns(i) ==
    { <<OutputOf(i), <<>>>>, <<<<>>, <<>>>>, <<<<>>, ChainError>> }

\* AgentExecution(agent, task, result_summary, error)
AgentExecution(a, t, r, e) ==
    [agent |-> a, task |-> t, result_summary |-> r, error |-> e]

(* ------------------------------ values --------------------------------- *)
\* a JSON value of a tool call: an int, a str (a sequence of tokens) or None
IntVal(n) == [t |-> "int", n |-> n, s |-> <<>>]

StrVal(s) == [t |-> "str", n |-> 0, s |-> s]

None == [t |-> "NoneType", n |-> 0, s |-> <<>>]

VARIABLES
    steps,              \* planner_decision.steps
    completed_results,  \* dict step index -> AgentExecution
    completed_keys,     \* insertion order of the keys of completed_results
    pending_steps,      \* indices of the (step_idx, step) pairs still pending
    ready_steps,        \* the wave selected by the current iteration
    remaining_steps,    \* the pending steps the current iteration left out
    results,            \* wave member -> the pair execute_step returned
    sent_task,          \* step index -> task text execute_step built for it
    invocations,        \* step index -> number of agent calls made for it
    overtaken,          \* history: some step finished before a wave-mate listed ahead of it
    waves,              \* history: iterations that reached asyncio.gather
    pc,                 \* control point of execute_dynamic_task
    exc,                \* exception that ended the run, "" if none
    task_result,        \* <<TaskResult>> once returned, <<>> before
    plan,               \* execute_plan: the parsed chain of tool calls
    steps_log,          \* execute_plan: the entries appended so far
    last_result,        \* execute_plan: output of the latest tool call
    cursor,             \* execute_plan: tool calls of the chain consumed by the for loop
    calls,              \* history: the tool invocations made, in order
    cpc,                \* control point of execute_plan
    chain_result,       \* <<dict>> once execute_plan returned, <<>> before
    agent_result,       \* <<MathAgentResult>> once the agent returned, <<>> before
    max_steps,          \* react_workflow: the max_steps argument
    step_num,           \* react_workflow: the loop variable, 0 before the loop
    react_steps,        \* react_workflow: the list steps of ReActStep records
    context_history,    \* react_workflow: the dicts appended for the prompt
    goal_achieved,      \* react_workflow: the local goal_achieved
    final_answer,       \* react_workflow: <<text>> once assigned, <<>> while unbound
    observation,        \* react_workflow: <<text>> once assigned, <<>> while unbound
    decision,           \* react_workflow: <<dict>> the planner's latest decision
    planner_calls,      \* history: planner LLM calls made
    agent_calls,        \* history: specialist agent calls made
    rpc,                \* control point of react_workflow
    react_exc,          \* exception that ended react_workflow, "" if none
    react_result        \* <<ReActResult>> once returned, <<>> before

vars == <<steps, completed_results, completed_keys, pending_steps, ready_steps,
          remaining_steps, results, sent_task, invocations, overtaken,
          waves, pc, exc, task_result>>

chain_vars == <<plan, steps_log, last_result, cursor, calls, cpc, chain_result,
                agent_result>>

react_vars == <<max_steps, step_num, react_steps, context_history,
                goal_achieved, final_answer, observation, decision,
                planner_calls, agent_calls, rpc, react_exc, react_result>>

all_vars == <<vars, chain_vars, react_vars>>

NumSteps == Len(steps)

StepIds == 0 .. NumSteps - 1

\* the AgentStep declared at 0-based index i
StepAt(i) == steps[i + 1]

Range(s) == {s[k] : k \in 1 .. Len(s)}

\* execute_dynamic_task before the planner has answered
SchedulerStart ==
    /\ steps = <<>>
    /\ completed_results = <<>>
    /\ completed_keys = <<>>
    /\ pending_steps = <<>>
    /\ ready_steps = <<>>
    /\ remaining_steps = <<>>
    /\ results = <<>>
    /\ sent_task = <<>>
    /\ invocations = <<>>
    /\ overtaken = FALSE
    /\ waves = 0
    /\ pc = "planner"
    /\ exc = ""
    /\ task_result = <<>>

\* no chain has been handed to execute_plan
ChainIdle ==
    /\ plan = <<>>
    /\ steps_log = <<>>
    /\ last_result = None
    /\ cursor = 0
    /\ calls = <<>>
    /\ cpc = "idle"
    /\ chain_result = <<>>
    /\ agent_result = <<>>

\* react_workflow has not been called
ReactIdle ==
    /\ max_steps = 0
    /\ step_num = 0
    /\ react_steps = <<>>
    /\ context_history = <<>>
    /\ goal_achieved = FALSE
    /\ final_answer = <<>>
    /\ observation = <<>>
    /\ decision = <<>>
    /\ planner_calls = 0
    /\ agent_calls = 0
    /\ rpc = "idle"
    /\ react_exc = ""
    /\ react_result = <<>>

Init == SchedulerStart /\ ChainIdle /\ ReactIdle

(* --------------------------- planner_agent ----------------------------- *)
\* planner_agent converts one more entry of the LLM's "steps" array into an
\* AgentStep; the entry's agent and dependency list are whatever the LLM wrote
PlannerStep(a, d) ==
    /\ pc = "planner"
    /\ Len(steps) < MaxSteps
    /\ NumEdges(steps) + Len(d) <= MaxEdges
    /\ steps' = Append(steps, AgentStep(a, TaskOf(Len(steps)), d))
    /\ UNCHANGED <<chain_vars, react_vars, completed_results, completed_keys, pending_steps,
                   ready_steps, remaining_steps, results, sent_task,
                   invocations, overtaken, waves, pc, exc, task_result>>

\* planner_agent returns the PlannerDecision; execute_dynamic_task sets up
\* completed_results = {} and pending_steps = list(enumerate(steps))
PlannerReturn ==
    /\ pc = "planner"
    /\ completed_results' = <<>>
    /\ pending_steps' = [k \in 1 .. Len(steps) |-> k - 1]
    /\ invocations' = [i \in 0 .. Len(steps) - 1 |-> 0]
    /\ pc' = "loop"
    /\ UNCHANGED <<chain_vars, react_vars, steps, completed_keys, ready_steps, remaining_steps,
                   results, sent_task, overtaken, waves, exc, task_result>>

(* ----------------------- execute_dynamic_task -------------------------- *)
\* mutation: a dependency counts as satisfied only if it finished without error
DepsSatisfied_ok(i, completed) ==
    \A k \in 1 .. Len(StepAt(i).dependencies) :
        /\ StepAt(i).dependencies[k] \in DOMAIN completed
        /\ completed[StepAt(i).dependencies[k]].error = <<>>

\* mutation: any() in place of all()
DepsSatisfied_any(i, completed) ==
    \E k \in 1 .. Len(StepAt(i).dependencies) :
        StepAt(i).dependencies[k] \in DOMAIN completed

\* mutation: only the first listed dependency is looked at
DepsSatisfied_first(i, completed) ==
    \/ StepAt(i).dependencies = <<>>
    \/ StepAt(i).dependencies[1] \in DOMAIN completed

\* mutation: an id that is no step of the plan does not hold a step back
DepsSatisfied_inPlan(i, completed) ==
    \A k \in 1 .. Len(StepAt(i).dependencies) :
        \/ StepAt(i).dependencies[k] \in DOMAIN completed
        \/ StepAt(i).dependencies[k] \notin StepIds

\* all(dep_idx in completed_results for dep_idx in step.dependencies)
DepsSatisfied(i, completed) ==
    \A k \in 1 .. Len(StepAt(i).dependencies) :
        StepAt(i).dependencies[k] \in DOMAIN completed

\* mutation: the pass stops collecting after the first ready step
SplitPending_one(pending, completed) ==
    LET ready == SelectSeq(pending, LAMBDA i : DepsSatisfied(i, completed))
    IN IF ready = <<>> THEN <<ready, pending>>
       ELSE <<<<Head(ready)>>, SelectSeq(pending, LAMBDA i : i # Head(ready))>>

\* mutation: a wave takes at most two of the ready steps
SplitPending_two(pending, completed) ==
    LET ready == SelectSeq(pending, LAMBDA i : DepsSatisfied(i, completed))
        wave == SubSeq(ready, 1, IF Len(ready) < 2 THEN Len(ready) ELSE 2)
    IN <<wave, SelectSeq(pending, LAMBDA i : i \notin {wave[k] : k \in 1 .. Len(wave)})>>

\* one pass over pending_steps: <<ready_steps, remaining_steps>>
SplitPending(pending, completed) ==
    <<SelectSeq(pending, LAMBDA i : DepsSatisfied(i, completed)),
      SelectSeq(pending, LAMBDA i : ~DepsSatisfied(i, completed))>>

ReadyOf(pending, completed) == SplitPending(pending, completed)[1]

RemainingOf(pending, completed) == SplitPending(pending, completed)[2]

\* mutation: the rendering also carries the dependency's error text
DepRendering_withError(dep_idx, dep_exec) ==
    <<"Step ">> \o IntStr(dep_idx) \o <<" (", dep_exec.agent, "): ">>
        \o dep_exec.result_summary \o dep_exec.error

\* f"Step {dep_idx} ({dep_exec.agent}): {dep_exec.result_summary}"
DepRendering(dep_idx, dep_exec) ==
    <<"Step ">> \o IntStr(dep_idx) \o <<" (", dep_exec.agent, "): ">>
        \o dep_exec.result_summary

\* the ids of a dependency list in ascending order, repetitions kept
SortedIds(deps) ==
    LET count(d) == Cardinality({k \in 1 .. Len(deps) : deps[k] = d})
        RECURSIVE build(_)
        build(d) == IF d > MaxSteps THEN <<>>
                    ELSE [k \in 1 .. count(d) |-> d] \o build(d + 1)
    IN build(0)

\* mutation: the renderings are produced in ascending dependency-id order
DepResults_sorted(i, completed) ==
    [k \in 1 .. Len(StepAt(i).dependencies) |->
        DepRendering(SortedIds(StepAt(i).dependencies)[k],
                     completed[SortedIds(StepAt(i).dependencies)[k]])]

\* the dep_results list of execute_step: one rendering per listed dependency
DepResults(i, completed) ==
    [k \in 1 .. Len(StepAt(i).dependencies) |->
        DepRendering(StepAt(i).dependencies[k],
                     completed[StepAt(i).dependencies[k]])]

\* the task text execute_step passes to the agent
EffectiveTask(i, completed) ==
    IF StepAt(i).dependencies # <<>>
    THEN <<"Context from previous steps:\n">>
            \o StrJoin(<<"\n">>, DepResults(i, completed))
            \o <<"\n\nYour task: ">> \o StepAt(i).task
    ELSE StepAt(i).task

\* mutation: the fallback reports its message as the result, not as the error
UnknownAgentResult_asResult(i) ==
    AgentExecution(StepAt(i).agent, StepAt(i).task,
                   <<"Unknown agent: ", StepAt(i).agent>>, <<>>)

\* the fallback branch of execute_step's routing
UnknownAgentResult(i) ==
    AgentExecution(StepAt(i).agent, StepAt(i).task, <<>>,
                   <<"Unknown agent: ", StepAt(i).agent>>)

\* mutation: the record keeps the task text that was sent to the agent
StepResult_effective(i, ret) ==
    AgentExecution(StepAt(i).agent, sent_task[i], ret[1], ret[2])

\* the (step_idx, AgentExecution) execute_step returns from an agent's result
StepResult(i, ret) ==
    AgentExecution(StepAt(i).agent, StepAt(i).task, ret[1], ret[2])

\* members of the current wave whose agent call has not come back
InFlight == Range(ready_steps) \ DOMAIN results

\* an iteration that selects a wave and hands it to asyncio.gather: every
\* execute_step coroutine runs up to its agent call; a step with an unknown
\* agent has no call to wait for and finishes at once.  The lookup
\* completed_results[dep_idx] of a dependency without a record raises
\* KeyError in that coroutine, which gather re-raises.
Dispatch ==
    /\ pc = "loop"
    /\ pending_steps # <<>>
    /\ LET ready == ReadyOf(pending_steps, completed_results)
           unknown == {i \in Range(ready) : StepAt(i).agent \notin KnownAgents}
       IN /\ ready # <<>>
          /\ ready_steps' = ready
          /\ remaining_steps' = RemainingOf(pending_steps, completed_results)
          /\ IF \A i \in Range(ready) :
                   \A k \in 1 .. Len(StepAt(i).dependencies) :
                       StepAt(i).dependencies[k] \in DOMAIN completed_results
             THEN /\ sent_task' =
                       [i \in DOMAIN sent_task \cup Range(ready) |->
                           IF i \in Range(ready)
                           THEN EffectiveTask(i, completed_results)
                           ELSE sent_task[i]]
                  /\ invocations' = [i \in DOMAIN invocations |->
                                       IF i \in Range(ready) \ unknown
                                       THEN invocations[i] + 1
                                       ELSE invocations[i]]
                  /\ results' = [i \in unknown |-> UnknownAgentResult(i)]
                  /\ overtaken' =
                       (overtaken \/ \E i \in unknown :
                                        \E j \in Range(ready) \ unknown : j < i)
                  /\ pc' = "gather"
                  /\ exc' = exc
             ELSE /\ pc' = "raised"
                  /\ exc' = "KeyError"
                  /\ UNCHANGED <<sent_task, invocations, results, overtaken>>
    /\ waves' = waves + 1
    /\ UNCHANGED <<chain_vars, react_vars, steps, completed_results, completed_keys,
                   pending_steps, task_result>>

\* mutation: the wave member writes its record into the table itself
AgentReturn_store(i, ret) ==
    /\ pc = "gather"
    /\ i \in InFlight
    /\ results' = [j \in DOMAIN results \cup {i} |->
                     IF j = i THEN StepResult(i, ret) ELSE results[j]]
    /\ completed_results' =
         [j \in DOMAIN completed_results \cup {i} |->
             IF j = i THEN StepResult(i, ret) ELSE completed_results[j]]
    /\ overtaken' = (overtaken \/ \E j \in InFlight : j < i)
    /\ UNCHANGED <<chain_vars, react_vars, steps, completed_keys, pending_steps,
                   ready_steps, remaining_steps, sent_task, invocations,
                   waves, pc, exc, task_result>>

\* the agent task called for step i returns its result object
AgentReturn(i, ret) ==
    /\ pc = "gather"
    /\ i \in InFlight
    /\ results' = [j \in DOMAIN results \cup {i} |->
                     IF j = i THEN StepResult(i, ret) ELSE results[j]]
    /\ overtaken' = (overtaken \/ \E j \in InFlight : j < i)
    /\ UNCHANGED <<chain_vars, react_vars, steps, completed_results, completed_keys, pending_steps,
                   ready_steps, remaining_steps, sent_task, invocations,
                   waves, pc, exc, task_result>>

\* the agent task called for step i raises (the LLM call or the chain
\* parsing fails): execute_step has no handler and asyncio.gather re-raises
\* the first exception into execute_dynamic_task; what the other members
\* returned so far is never delivered
AgentRaise(i) ==
    /\ pc = "gather"
    /\ i \in InFlight
    /\ results' = <<>>
    /\ pc' = "raised"
    /\ exc' = "AgentException"
    /\ UNCHANGED <<chain_vars, react_vars, steps, completed_results, completed_keys, pending_steps,
                   ready_steps, remaining_steps, sent_task, invocations,
                   overtaken, waves, task_result>>

\* mutation: the table is replaced by the records of the wave
StoreResults_fresh(completed, ready, res) ==
    [i \in Range(ready) |-> res[i]]

\* mutation: the records are matched to the members of the wave in the order
\* the calls came back, so an overtaking exchanges the first and last member
StoreResults_byArrival(completed, ready, res) ==
    LET from(i) == IF ~overtaken THEN i
                   ELSE IF i = ready[1] THEN ready[Len(ready)]
                   ELSE IF i = ready[Len(ready)] THEN ready[1]
                   ELSE i
    IN [i \in DOMAIN completed \cup Range(ready) |->
           IF i \in Range(ready) THEN res[from(i)] ELSE completed[i]]

\* the dict after "for step_idx, execution in results: ..."
StoreResults(completed, ready, res) ==
    [i \in DOMAIN completed \cup Range(ready) |->
        IF i \in Range(ready) THEN res[i] ELSE completed[i]]

\* mutation: the members whose record carries an error stay pending
NextPending_retry(pending, remaining) ==
    remaining \o SelectSeq(pending,
        LAMBDA i : i \in DOMAIN results /\ results[i].error # <<>>)

\* mutation: pending_steps is left as it was
NextPending_same(pending, remaining) == pending

\* the value assigned to pending_steps at the end of an iteration
NextPending(pending, remaining) == remaining

\* mutation: the wait ends as soon as one member has returned; the records
\* that are in are stored and the loop goes on
JoinWave_first ==
    /\ pc = "gather"
    /\ DOMAIN results # {}
    /\ completed_results' =
         [i \in DOMAIN completed_results \cup DOMAIN results |->
             IF i \in DOMAIN results THEN results[i] ELSE completed_results[i]]
    /\ completed_keys' =
         completed_keys \o SelectSeq(ready_steps, LAMBDA i : i \in DOMAIN results)
    /\ pending_steps' = NextPending(pending_steps, remaining_steps)
    /\ pc' = "loop"
    /\ UNCHANGED <<chain_vars, react_vars, steps, ready_steps, remaining_steps, results,
                   sent_task, invocations, overtaken, waves, exc, task_result>>

\* asyncio.gather returns: store the wave's records, update pending_steps
JoinWave ==
    /\ pc = "gather"
    /\ InFlight = {}
    /\ completed_results' = StoreResults(completed_results, ready_steps, results)
    /\ completed_keys' = completed_keys \o ready_steps
    /\ pending_steps' = NextPending(pending_steps, remaining_steps)
    /\ pc' = "loop"
    /\ UNCHANGED <<chain_vars, react_vars, steps, ready_steps, remaining_steps, results, sent_task,
                   invocations, overtaken, waves, exc, task_result>>

\* mutation: the records are listed in the order they were stored
AgentExecutions_stored(completed) ==
    [k \in 1 .. NumSteps |-> completed[completed_keys[k]]]

\* [completed_results[i] for i in range(len(planner_decision.steps))]
AgentExecutions(completed) ==
    [k \in 1 .. NumSteps |-> completed[k - 1]]

\* mutation: the filter looks at the error only
Included_noError(execution) == execution.error = <<>>

\* execution.result_summary and not execution.error
Included(execution) ==
    execution.result_summary # <<>> /\ execution.error = <<>>

\* f"{execution.agent}: {execution.result_summary}"
Entry(execution) == <<execution.agent, ": ">> \o execution.result_summary

RECURSIVE FinalResults(_)
\* the final_results list collected from agent_executions
FinalResults(executions) ==
    IF executions = <<>> THEN <<>>
    ELSE (IF Included(Head(executions)) THEN <<Entry(Head(executions))>>
          ELSE <<>>) \o FinalResults(Tail(executions))

\* mutation: the join is returned even when nothing was collected
CombinedResult_join(final_results) == StrJoin(<<" | ">>, final_results)

\* mutation: another text stands for the empty collection
CombinedResult_none(final_results) ==
    IF final_results # <<>> THEN StrJoin(<<" | ">>, final_results)
    ELSE <<"None">>

\* " | ".join(final_results) if final_results else "No results"
CombinedResult(final_results) ==
    IF final_results # <<>> THEN StrJoin(<<" | ">>, final_results)
    ELSE <<"No results">>

\* f"{len(steps)} step(s): " + ", ".join(agent names)
PlannerSummary ==
    IntStr(NumSteps) \o <<" step(s): ">>
        \o StrJoin(<<", ">>, [k \in 1 .. NumSteps |-> <<steps[k].agent>>])

\* TaskResult(planner_decision_summary, agent_executions, final_result)
TaskResult(summary, executions, final) ==
    [planner_decision_summary |-> summary, agent_executions |-> executions,
     final_result |-> final]

\* the code after the loop, which runs without suspending: the list
\* comprehension raises KeyError at the first index that has no record,
\* otherwise the TaskResult is built and returned
Assemble ==
    IF \A i \in StepIds : i \in DOMAIN completed_results
    THEN /\ task_result' =
              <<TaskResult(PlannerSummary, AgentExecutions(completed_results),
                           CombinedResult(
                               FinalResults(AgentExecutions(completed_results))))>>
         /\ pc' = "returned"
         /\ exc' = exc
    ELSE /\ task_result' = task_result
         /\ pc' = "raised"
         /\ exc' = "KeyError"

\* the loop test fails (while pending_steps) and the result is assembled
LoopExit ==
    /\ pc = "loop"
    /\ pending_steps = <<>>
    /\ Assemble
    /\ UNCHANGED <<chain_vars, react_vars, steps, completed_results, completed_keys, pending_steps,
                   ready_steps, remaining_steps, results, sent_task,
                   invocations, overtaken, waves>>

\* mutation: the iteration without a ready step goes round again
Break_continue ==
    /\ pc = "loop"
    /\ pending_steps # <<>>
    /\ ReadyOf(pending_steps, completed_results) = <<>>
    /\ ready_steps' = <<>>
    /\ remaining_steps' = RemainingOf(pending_steps, completed_results)
    /\ UNCHANGED <<chain_vars, react_vars, steps, completed_results, completed_keys, pending_steps,
                   results, sent_task, invocations, overtaken, waves, pc, exc,
                   task_result>>

\* an iteration that finds no ready step: print the error, break, and run
\* the code after the loop
Break ==
    /\ pc = "loop"
    /\ pending_steps # <<>>
    /\ ReadyOf(pending_steps, completed_results) = <<>>
    /\ ready_steps' = <<>>
    /\ remaining_steps' = RemainingOf(pending_steps, completed_results)
    /\ Assemble
    /\ UNCHANGED <<chain_vars, react_vars, steps, completed_results, completed_keys, pending_steps,
                   results, sent_task, invocations, overtaken, waves>>

Next ==
    \/ \E a \in AgentNames : \E d \in DepLists : PlannerStep(a, d)
    \/ PlannerReturn
    \/ LoopExit
    \/ Break
    \/ Dispatch
    \/ \E i \in StepIds : \E ret \in AgentReturns(i) : AgentReturn(i, ret)
    \/ \E i \in StepIds : AgentRaise(i)
    \/ JoinWave

Spec == Init /\ [][Next]_all_vars

\* the run has ended: a TaskResult was returned or an exception left the task
Terminated == pc \in {"returned", "raised"}

\* the specification with progress: the task keeps running and every agent
\* call that was dispatched comes back
FairSpec == Spec /\ WF_all_vars(Next)

(* ---------------------------- math_tools ------------------------------- *)
\* what a call of a tool comes to: a returned value or a raised exception
Returned(v) == [raised |-> FALSE, value |-> v, error |-> <<>>]

Raised(e) == [raised |-> TRUE, value |-> None, error |-> e]

\* str(e) of the TypeError the operator op raises on operands a and b
TypeError(op, a, b) ==
    <<"unsupported operand type(s) for ", op, ": ", a.t, " and ", b.t>>

RECURSIVE Repeat(_, _)
\* the sequence s * n
Repeat(s, n) == IF n <= 0 THEN <<>> ELSE s \o Repeat(s, n - 1)

\* return a + b
add(a, b) ==
    IF a.t = "int" /\ b.t = "int" THEN Returned(IntVal(a.n + b.n))
    ELSE IF a.t = "str" /\ b.t = "str" THEN Returned(StrVal(a.s \o b.s))
    ELSE Raised(TypeError("+", a, b))

\* return a * b
multiply(a, b) ==
    IF a.t = "int" /\ b.t = "int" THEN Returned(IntVal(a.n * b.n))
    ELSE IF a.t = "str" /\ b.t = "int" THEN Returned(StrVal(Repeat(a.s, b.n)))
    ELSE IF a.t = "int" /\ b.t = "str" THEN Returned(StrVal(Repeat(b.s, a.n)))
    ELSE Raised(TypeError("*", a, b))

\* the tools of the toolset the chains of this model name (power, the third
\* tool of the math toolset, is named by no chain here)
Toolset == {"add", "multiply"}

\* toolset[tool_name](*args)
CallTool(tool_name, args) ==
    IF Len(args) # 2 THEN Raised(<<"takes 2 positional arguments">>)
    ELSE IF tool_name = "add" THEN add(args[1], args[2])
    ELSE multiply(args[1], args[2])

(* ---------------------------- execute_plan ----------------------------- *)
\* tool names the LLM may write in a chain: the known ones and an unknown one
ToolNames == Toolset \cup {"bogus"}

\* argument values the LLM may write
ArgValues ==
    {IntVal(2), IntVal(3), IntVal(5), StrVal(<<"previous">>),
     StrVal(<<"Previous">>), StrVal(<<"abc">>)}

ArgLists == {<<a, b>> : a, b \in ArgValues}

\* the argument list written for a tool the toolset does not have
UnknownToolArgs == <<IntVal(2), StrVal(<<"previous">>)>>

\* one element of the parsed plan
ToolStep(tool, args) == [tool |-> tool, args |-> args, reasoning |-> <<"why">>]

\* str.lower() of one token
LowerToken(tok) == IF tok = "Previous" THEN "previous" ELSE tok

\* s.lower()
Lower(s) == [k \in 1 .. Len(s) |-> LowerToken(s[k])]

\* str(a)
StrOf(a) ==
    IF a.t = "str" THEN a.s
    ELSE IF a.t = "int" THEN <<ToString(a.n)>>
    ELSE <<"None">>

\* mutation: the argument is compared with the token as written
IsPrevious_exact(a) == a = StrVal(<<"previous">>)

\* str(a).lower() == "previous"
IsPrevious(a) == Lower(StrOf(a)) = <<"previous">>

\* mutation: the placeholder is replaced by the first literal of the call
ResolveArgs_literal(args, last) ==
    [k \in 1 .. Len(args) |-> IF IsPrevious(args[k]) THEN args[1] ELSE args[k]]

\* mutation: without an earlier result the placeholder is left in place
ResolveArgs_guarded(args, last) ==
    [k \in 1 .. Len(args) |->
        IF IsPrevious(args[k]) /\ last # None THEN last ELSE args[k]]

\* [last_result if str(a).lower() == "previous" else a for a in args]
ResolveArgs(args, last) ==
    [k \in 1 .. Len(args) |-> IF IsPrevious(args[k]) THEN last ELSE args[k]]

\* the value fits the bounds of the model
Fits(v) == v.n <= MaxValue /\ Len(v.s) <= MaxTextLen

\* the invocation toolset[tool_name](*args) made for the chain position at
Invocation(at, args) == [at |-> at, args |-> args]

\* the dict appended to steps_log
LogEntry(tool, args, result, reasoning) ==
    [tool |-> tool, args |-> args, result |-> result, reasoning |-> reasoning]

\* json.loads(raw_plan) yields one more tool call of the chain the LLM wrote
ChainOp(tool, args) ==
    /\ cpc = "parse"
    /\ Len(plan) < MaxOps
    /\ tool \notin Toolset => args = UnknownToolArgs
    /\ plan' = Append(plan, ToolStep(tool, args))
    /\ UNCHANGED <<vars, react_vars, agent_result, steps_log, last_result, cursor, calls, cpc,
                   chain_result>>

\* steps_log = [] ; last_result = None ; the try block is entered
ChainBegin ==
    /\ cpc = "parse"
    /\ steps_log' = <<>>
    /\ last_result' = None
    /\ cursor' = 0
    /\ cpc' = "run"
    /\ UNCHANGED <<vars, react_vars, agent_result, plan, calls, chain_result>>

\* the step the for loop is at
CurrentStep == plan[cursor + 1]

\* its argument list after the placeholder substitution
CurrentArgs == ResolveArgs(CurrentStep.args, last_result)

\* mutation: the entry is appended but last_result keeps its value
ChainStepOk_keep ==
    /\ cpc = "run"
    /\ cursor < Len(plan)
    /\ CurrentStep.tool \in Toolset
    /\ LET out == CallTool(CurrentStep.tool, CurrentArgs)
       IN /\ ~out.raised
          /\ Fits(out.value)
          /\ steps_log' = Append(steps_log,
                LogEntry(CurrentStep.tool, CurrentArgs, out.value,
                         CurrentStep.reasoning))
          /\ last_result' = last_result
    /\ calls' = Append(calls, Invocation(cursor + 1, CurrentArgs))
    /\ cursor' = cursor + 1
    /\ UNCHANGED <<vars, react_vars, agent_result, plan, cpc, chain_result>>

\* one iteration whose tool is known and returns: the entry is appended
\* and last_result takes the tool's output
ChainStepOk ==
    /\ cpc = "run"
    /\ cursor < Len(plan)
    /\ CurrentStep.tool \in Toolset
    /\ LET out == CallTool(CurrentStep.tool, CurrentArgs)
       IN /\ ~out.raised
          /\ Fits(out.value)
          /\ steps_log' = Append(steps_log,
                LogEntry(CurrentStep.tool, CurrentArgs, out.value,
                         CurrentStep.reasoning))
          /\ last_result' = out.value
    /\ calls' = Append(calls, Invocation(cursor + 1, CurrentArgs))
    /\ cursor' = cursor + 1
    /\ UNCHANGED <<vars, react_vars, agent_result, plan, cpc, chain_result>>

\* mutation: the failing call is logged like a successful one before the
\* error is returned
ChainStepRaise_logged ==
    /\ cpc = "run"
    /\ cursor < Len(plan)
    /\ CurrentStep.tool \in Toolset
    /\ LET out == CallTool(CurrentStep.tool, CurrentArgs)
           log == Append(steps_log,
                    LogEntry(CurrentStep.tool, CurrentArgs, None,
                             CurrentStep.reasoning))
       IN /\ out.raised
          /\ steps_log' = log
          /\ chain_result' = <<[error |-> out.error, steps |-> log]>>
    /\ calls' = Append(calls, Invocation(cursor + 1, CurrentArgs))
    /\ cpc' = "done"
    /\ UNCHANGED <<vars, react_vars, agent_result, plan, last_result, cursor>>

\* one iteration whose tool raises: the except clause returns the error
\* text with the log as it stands
ChainStepRaise ==
    /\ cpc = "run"
    /\ cursor < Len(plan)
    /\ CurrentStep.tool \in Toolset
    /\ LET out == CallTool(CurrentStep.tool, CurrentArgs)
       IN /\ out.raised
          /\ chain_result' = <<[error |-> out.error, steps |-> steps_log]>>
    /\ calls' = Append(calls, Invocation(cursor + 1, CurrentArgs))
    /\ cpc' = "done"
    /\ UNCHANGED <<vars, react_vars, agent_result, plan, steps_log, last_result, cursor>>

\* mutation: the unknown tool is skipped and the loop goes on
ChainStepUnknown_skip ==
    /\ cpc = "run"
    /\ cursor < Len(plan)
    /\ CurrentStep.tool \notin Toolset
    /\ cursor' = cursor + 1
    /\ UNCHANGED <<vars, react_vars, agent_result, plan, steps_log, last_result, calls, cpc,
                   chain_result>>

\* one iteration whose tool is not in the toolset: ValueError is raised and
\* the except clause returns its text with the log as it stands
ChainStepUnknown ==
    /\ cpc = "run"
    /\ cursor < Len(plan)
    /\ CurrentStep.tool \notin Toolset
    /\ chain_result' = <<[error |-> <<"Unknown tool: ", CurrentStep.tool>>,
                          steps |-> steps_log]>>
    /\ cpc' = "done"
    /\ UNCHANGED <<vars, react_vars, agent_result, plan, steps_log, last_result, cursor, calls>>

\* mutation: the result of the first call is returned as the final result
ChainReturn_first ==
    /\ cpc = "run"
    /\ cursor = Len(plan)
    /\ chain_result' =
         <<[final_result |-> IF steps_log = <<>> THEN last_result
                             ELSE steps_log[1].result,
            steps |-> steps_log]>>
    /\ cpc' = "done"
    /\ UNCHANGED <<vars, react_vars, agent_result, plan, steps_log, last_result, cursor, calls>>

\* mutation: a chain without operations is reported as an error
ChainReturn_emptyError ==
    /\ cpc = "run"
    /\ cursor = Len(plan)
    /\ chain_result' =
         <<IF plan = <<>> THEN [error |-> <<"Empty plan">>, steps |-> steps_log]
           ELSE [final_result |-> last_result, steps |-> steps_log]>>
    /\ cpc' = "done"
    /\ UNCHANGED <<vars, react_vars, agent_result, plan, steps_log, last_result, cursor,
                   calls>>

\* the for loop is exhausted: return {"final_result": ..., "steps": ...}
ChainReturn ==
    /\ cpc = "run"
    /\ cursor = Len(plan)
    /\ chain_result' = <<[final_result |-> last_result, steps |-> steps_log]>>
    /\ cpc' = "done"
    /\ UNCHANGED <<vars, react_vars, agent_result, plan, steps_log, last_result, cursor, calls>>

(* ----------------------------- math_agent ------------------------------ *)
\* MathAgentResult(final_result, steps, error)
MathAgentResult(final, log, error) ==
    [final_result |-> final, steps |-> log, error |-> error]

\* mutation: the text of the latest output is reported whatever the chain
\* returned
FinalText_last(result) == StrOf(last_result)

\* str(result.get("final_result", ""))
FinalText(result) ==
    IF "final_result" \in DOMAIN result THEN StrOf(result.final_result)
    ELSE <<>>

\* result.get("error", "")
ErrorText(result) ==
    IF "error" \in DOMAIN result THEN result.error ELSE <<>>

\* the agent wraps the dict its chain returned into its result object
MathAgentReturn ==
    /\ cpc = "done"
    /\ agent_result' =
         <<MathAgentResult(FinalText(chain_result[1]), chain_result[1].steps,
                           ErrorText(chain_result[1]))>>
    /\ cpc' = "agent_returned"
    /\ UNCHANGED <<vars, react_vars, plan, steps_log, last_result, cursor, calls,
                   chain_result>>

\* the record execute_step builds from the agent's result
OwningRecord ==
    AgentExecution("math", TaskOf(0), agent_result[1].final_result,
                   agent_result[1].error)

\* execute_plan has received the LLM's answer and parses it
ChainStart ==
    /\ plan = <<>>
    /\ steps_log = <<>>
    /\ last_result = None
    /\ cursor = 0
    /\ calls = <<>>
    /\ cpc = "parse"
    /\ chain_result = <<>>
    /\ agent_result = <<>>

ChainInit == SchedulerStart /\ ChainStart /\ ReactIdle

ChainNext ==
    \/ \E tool \in ToolNames : \E args \in ArgLists : ChainOp(tool, args)
    \/ ChainBegin
    \/ ChainStepOk
    \/ ChainStepRaise
    \/ ChainStepUnknown
    \/ ChainReturn
    \/ MathAgentReturn

\* execute_plan run on its own
ChainSpec == ChainInit /\ [][ChainNext]_all_vars

(* --------------------------- react_workflow ---------------------------- *)
\* largest max_steps argument of the runs modelled
MaxReactSteps == 3

\* the agents react_workflow routes to
AvailableAgents == {"math", "string", "web_search", "code", "weather"}

\* values the planner may give for "action_agent": a routed agent, a name
\* that is routed nowhere, and null (formatted as None)
ActionAgents == {"math", "bogus", "None"}

\* texts a specialist agent may return as final_result
ObservationTexts == {<<"obs1">>, <<"obs2">>}

\* the JSON object parsed from the planner's answer
Decision(agent, achieved) ==
    [thought |-> <<"thought">>,
     action_agent |-> agent,
     action_task |-> IF agent = "None" THEN <<"None">> ELSE <<"task">>,
     goal_achieved |-> achieved,
     final_answer |-> IF achieved THEN <<"answer">> ELSE <<"None">>]

\* the decisions the planner may return
Decisions ==
    {Decision(a, FALSE) : a \in ActionAgents} \cup {Decision("None", TRUE)}

\* ReActStep(step_number, thought, action_agent, action_task, observation,
\* reflection)
ReActStep(n, d, obs, reflection) ==
    [step_number |-> n, thought |-> d.thought, action_agent |-> d.action_agent,
     action_task |-> d.action_task, observation |-> obs,
     reflection |-> reflection]

\* the dict appended to context_history
ContextEntry(n, d, obs, reflection) ==
    [step |-> n, thought |-> d.thought, action_agent |-> d.action_agent,
     action_task |-> d.action_task, observation |-> obs,
     reflection |-> reflection]

\* f"ERROR: Unknown agent '{action_agent}'"
UnknownAgentObservation(agent) == <<"ERROR: Unknown agent '", agent, "'">>

\* f"Could not achieve goal in {max_steps} steps. Last observation: ..."
CouldNotAchieve(max, obs) ==
    <<"Could not achieve goal in ">> \o IntStr(max)
        \o <<" steps. Last observation: ">> \o obs

\* mutation: every result reports the goal as achieved
ReActResult_achieved(goal, stps, answer, total, achieved) ==
    [goal |-> goal, steps |-> stps, final_answer |-> answer,
     total_steps |-> total, goal_achieved |-> TRUE]

\* ReActResult(goal, steps, final_answer, total_steps, goal_achieved)
ReActResult(goal, stps, answer, total, achieved) ==
    [goal |-> goal, steps |-> stps, final_answer |-> answer,
     total_steps |-> total, goal_achieved |-> achieved]

\* react_workflow is called with a max_steps argument
ReactStart ==
    /\ max_steps \in 0 .. MaxReactSteps
    /\ step_num = 0
    /\ react_steps = <<>>
    /\ context_history = <<>>
    /\ goal_achieved = FALSE
    /\ final_answer = <<>>
    /\ observation = <<>>
    /\ decision = <<>>
    /\ planner_calls = 0
    /\ agent_calls = 0
    /\ rpc = "loop"
    /\ react_exc = ""
    /\ react_result = <<>>

\* the code after the loop: the fallback answer when the goal was not
\* achieved (reading observation, unbound if no iteration assigned it) and
\* the returned ReActResult
Finish(achieved, answer) ==
    IF ~achieved /\ observation = <<>>
    THEN /\ rpc' = "raised"
         /\ react_exc' = "UnboundLocalError"
         /\ final_answer' = answer
         /\ react_result' = react_result
    ELSE /\ rpc' = "returned"
         /\ react_exc' = react_exc
         /\ final_answer' =
              IF achieved THEN answer
              ELSE <<CouldNotAchieve(max_steps, observation[1])>>
         /\ react_result' =
              <<ReActResult(<<"goal">>, react_steps, final_answer'[1],
                            Len(react_steps), achieved)>>

\* mutation: the loop runs for step_num in range(1, max_steps + 2)
ReactIterate_inclusive ==
    /\ rpc = "loop"
    /\ step_num <= max_steps
    /\ step_num' = step_num + 1
    /\ planner_calls' = planner_calls + 1
    /\ rpc' = "planner"
    /\ UNCHANGED <<vars, chain_vars, max_steps, react_steps, context_history,
                   goal_achieved, final_answer, observation, decision,
                   agent_calls, react_exc, react_result>>

\* the for loop starts its next iteration and asks the planner
ReactIterate ==
    /\ rpc = "loop"
    /\ step_num < max_steps
    /\ step_num' = step_num + 1
    /\ planner_calls' = planner_calls + 1
    /\ rpc' = "planner"
    /\ UNCHANGED <<vars, chain_vars, max_steps, react_steps, context_history,
                   goal_achieved, final_answer, observation, decision,
                   agent_calls, react_exc, react_result>>

\* the planner's answer is parsed: break when the goal is achieved, else
\* route the action to its agent or note the unknown agent
ReactPlannerReturn(d) ==
    /\ rpc = "planner"
    /\ decision' = <<d>>
    /\ goal_achieved' = d.goal_achieved
    /\ IF d.goal_achieved
       THEN /\ Finish(TRUE, <<d.final_answer>>)
            /\ UNCHANGED <<observation, agent_calls>>
       ELSE /\ IF d.action_agent \in AvailableAgents
               THEN /\ agent_calls' = agent_calls + 1
                    /\ rpc' = "agent"
                    /\ observation' = observation
               ELSE /\ observation' =
                         <<UnknownAgentObservation(d.action_agent)>>
                    /\ rpc' = "reflect"
                    /\ agent_calls' = agent_calls
            /\ UNCHANGED <<final_answer, react_exc, react_result>>
    /\ UNCHANGED <<vars, chain_vars, max_steps, step_num, react_steps,
                   context_history, planner_calls>>

\* the planner's LLM call raises, or its answer holds no JSON object or
\* lacks a key
ReactPlannerRaise ==
    /\ rpc = "planner"
    /\ rpc' = "raised"
    /\ react_exc' = "PlannerException"
    /\ UNCHANGED <<vars, chain_vars, max_steps, step_num, react_steps,
                   context_history, goal_achieved, final_answer, observation,
                   decision, planner_calls, agent_calls, react_result>>

\* the agent returns: observation = result.final_result
ReactAgentReturn(obs) ==
    /\ rpc = "agent"
    /\ observation' = <<obs>>
    /\ rpc' = "reflect"
    /\ UNCHANGED <<vars, chain_vars, max_steps, step_num, react_steps,
                   context_history, goal_achieved, final_answer, decision,
                   planner_calls, agent_calls, react_exc, react_result>>

\* the agent raises
ReactAgentRaise ==
    /\ rpc = "agent"
    /\ rpc' = "raised"
    /\ react_exc' = "AgentException"
    /\ UNCHANGED <<vars, chain_vars, max_steps, step_num, react_steps,
                   context_history, goal_achieved, final_answer, observation,
                   decision, planner_calls, agent_calls, react_result>>

\* the reflection call returns: the step is recorded, added to the context
\* history and logged
ReactReflectReturn ==
    /\ rpc = "reflect"
    /\ react_steps' =
         Append(react_steps,
                ReActStep(step_num, decision[1], observation[1],
                          <<"reflection">>))
    /\ context_history' =
         Append(context_history,
                ContextEntry(step_num, decision[1], observation[1],
                             <<"reflection">>))
    /\ rpc' = "loop"
    /\ UNCHANGED <<vars, chain_vars, max_steps, step_num, goal_achieved,
                   final_answer, observation, decision, planner_calls,
                   agent_calls, react_exc, react_result>>

\* the reflection call raises
ReactReflectRaise ==
    /\ rpc = "reflect"
    /\ rpc' = "raised"
    /\ react_exc' = "ReflectionException"
    /\ UNCHANGED <<vars, chain_vars, max_steps, step_num, react_steps,
                   context_history, goal_achieved, final_answer, observation,
                   decision, planner_calls, agent_calls, react_result>>

\* range(1, max_steps + 1) is exhausted: the code after the loop runs
ReactExhausted ==
    /\ rpc = "loop"
    /\ step_num >= max_steps
    /\ Finish(goal_achieved, final_answer)
    /\ UNCHANGED <<vars, chain_vars, max_steps, step_num, react_steps,
                   context_history, goal_achieved, observation, decision,
                   planner_calls, agent_calls>>

ReactInit == SchedulerStart /\ ChainIdle /\ ReactStart

ReactNext ==
    \/ ReactIterate
    \/ \E d \in Decisions : ReactPlannerReturn(d)
    \/ ReactPlannerRaise
    \/ \E obs \in ObservationTexts : ReactAgentReturn(obs)
    \/ ReactAgentRaise
    \/ ReactReflectReturn
    \/ ReactReflectRaise
    \/ ReactExhausted

\* react_workflow run on its own
ReactSpec == ReactInit /\ [][ReactNext]_all_vars

\* react_workflow has returned or an exception has left it
ReactTerminated == rpc \in {"returned", "raised"}

\* every call that is in flight comes back and the code between calls runs
ReactFairSpec == ReactSpec /\ WF_all_vars(ReactNext)

(* ------------------------- plan graph notions -------------------------- *)
\* the ids step i lists as dependencies
DepSet(i) == Range(StepAt(i).dependencies)

RECURSIVE ReachWithin(_, _)
\* the steps reached from the set S along at most k dependency links
ReachWithin(S, k) ==
    IF k = 0 THEN S
    ELSE ReachWithin(S \cup UNION {DepSet(i) \cap StepIds : i \in S}, k - 1)

\* the steps step i depends on, directly or transitively
DependsOn(i) == ReachWithin(DepSet(i) \cap StepIds, NumSteps)

\* some step depends on itself through a chain of one or more links
HasCycle == \E i \in StepIds : i \in DependsOn(i)

\* some step lists an id that is no step of the plan
HasDangling == \E i \in StepIds : ~(DepSet(i) \subseteq StepIds)

ValidDAG == ~HasCycle /\ ~HasDangling

\* the planner has returned and execute_dynamic_task is running or has ended
Started == pc # "planner"

(* ------------------------------- claims -------------------------------- *)

\* C1: a plan containing a dependency cycle always ends execute_dynamic_task
\* with the fatal unresolvable-graph failure (the KeyError raised once no step
\* is ready) and returns no ExecutionRecord.
C1_CycleEndsUnresolvable ==
    (HasCycle /\ Terminated) => (exc = "KeyError" /\ task_result = <<>>)

\* C2: a plan with a dangling dependency id fails the whole run with the
\* fatal unresolvable-graph failure and returns neither a combined string nor
\* a record list.
C2_DanglingEndsUnresolvable ==
    (HasDangling /\ Terminated) => (exc = "KeyError" /\ task_result = <<>>)

\* C3: for every plan, cyclic, self-dependent or dangling ones included, the
\* scheduling loop terminates when every dispatched agent call comes back.
C3_LoopTerminates == <>Terminated

\* C3 witness: a run of a cyclic plan that executed a wave and then ended
C3_Witness == HasCycle /\ waves >= 1 /\ Terminated

SetMax(S) == CHOOSE m \in S : \A x \in S : x <= m

RECURSIVE ChainLength(_, _)
\* steps on the longest dependency chain that ends in step i (k bounds the
\* recursion; a chain of a DAG never has more than NumSteps steps)
ChainLength(i, k) ==
    IF k = 0 THEN 0
    ELSE 1 + SetMax({0} \cup {ChainLength(j, k - 1) : j \in DepSet(i) \cap StepIds})

\* the height of the plan's DAG: steps on its longest dependency chain
Height == SetMax({0} \cup {ChainLength(i, NumSteps) : i \in StepIds})

\* no step of the plan lists a dependency
NoDependencies == \A i \in StepIds : StepAt(i).dependencies = <<>>

\* C4: when no step has a dependency, all steps are dispatched in one single
\* wave: the first iteration's ready list is the whole plan in plan order,
\* nothing remains pending, and a run that leaves the loop has executed
\* exactly one wave (none for the empty plan).
C4_NoDepsSingleWave ==
    (Started /\ NoDependencies) =>
        /\ waves <= 1
        /\ waves = 1 =>
             /\ ready_steps = [k \in 1 .. NumSteps |-> k - 1]
             /\ remaining_steps = <<>>
             /\ DOMAIN sent_task = StepIds
        /\ (pc = "returned" /\ NumSteps > 0) => waves = 1

\* C4 witness: a three-step plan without dependencies was returned after its
\* single wave
C4_Witness ==
    /\ NoDependencies /\ NumSteps = 3 /\ pc = "returned" /\ waves = 1

\* C5: for a plan forming a valid DAG the number of waves the scheduling loop
\* executes equals the number of steps on the DAG's longest dependency chain:
\* the loop never gives up on it, never runs more waves than that, and the
\* run that returns has run exactly that many.
C5_WavesEqualHeight ==
    (Started /\ ValidDAG) =>
        /\ waves <= Height
        /\ exc # "KeyError"
        /\ pc = "returned" => waves = Height

\* C5 witness: a chain of three steps declared against plan order ran in
\* three waves
C5_Witness ==
    /\ ValidDAG /\ pc = "returned" /\ Height = 3 /\ waves = 3
    /\ StepAt(0).dependencies # <<>>

\* position of an output text among OutputTexts
OutputIndex(tok) == CHOOSE n \in 1 .. Len(OutputTexts) : OutputTexts[n] = tok

\* the worker outputs a text mentions, in the order it mentions them
OutputsIn(text) ==
    LET marks == SelectSeq(text, LAMBDA tok : tok \in Range(OutputTexts))
    IN [k \in 1 .. Len(marks) |-> OutputIndex(marks[k])]

Ascending(seq) == \A p, q \in 1 .. Len(seq) : p < q => seq[p] < seq[q]

\* C6: the returned record list and combined string list the steps in plan
\* order, whatever wave a step ran in and whatever order the calls of a wave
\* finished in: record k is the record of the step declared at position k.
C6_PlanOrderOutput ==
    pc = "returned" =>
        LET tr == task_result[1]
        IN /\ Len(tr.agent_executions) = NumSteps
           /\ \A k \in 1 .. NumSteps :
                /\ tr.agent_executions[k].task = TaskOf(k - 1)
                /\ tr.agent_executions[k].agent = steps[k].agent
           /\ Ascending(OutputsIn(tr.final_result))

\* C6 witness: [A, B, C(deps 0,1)] returned all three outputs although B
\* finished before A
C6_Witness ==
    /\ pc = "returned" /\ NumSteps = 3 /\ overtaken
    /\ StepAt(2).dependencies = <<0, 1>>
    /\ OutputsIn(task_result[1].final_result) = <<1, 2, 3>>

\* value of a digit token
DigitValue(tok) == CHOOSE n \in 0 .. 9 : Digits[n + 1] = tok

RECURSIVE StepMarks(_)
\* the step ids a task text names after each "Step " marker, in text order
StepMarks(text) ==
    IF Len(text) < 2 THEN <<>>
    ELSE IF Head(text) = "Step "
         THEN <<DigitValue(text[2])>> \o StepMarks(Tail(text))
         ELSE StepMarks(Tail(text))

\* the text sub occurs in the text s
Contains(s, sub) ==
    \E p \in 1 .. Len(s) - Len(sub) + 1 : SubSeq(s, p, p + Len(sub) - 1) = sub

\* "Step <id> (<worker>): <output>" of the recorded dependency d
Rendered(d) ==
    <<"Step ", Digits[d + 1], " (", StepAt(d).agent, "): ">>
        \o completed_results[d].result_summary

NonDecreasing(seq) == \A p, q \in 1 .. Len(seq) : p < q => seq[p] <= seq[q]

\* steps that were handed to execute_step with a non-empty dependency list
DispatchedDependents ==
    {i \in DOMAIN sent_task : StepAt(i).dependencies # <<>>}

\* C7 as stated: the effective task of a step with dependencies contains the
\* rendering of every dependency, and the renderings appear in ascending
\* dependency-id order whatever order the ids were declared in.
C7_RenderedAscending ==
    \A i \in DispatchedDependents :
        /\ \A d \in DepSet(i) : Contains(sent_task[i], Rendered(d))
        /\ NonDecreasing(StepMarks(sent_task[i]))

\* C7 amended: the effective task of a step with dependencies contains the
\* rendering of every dependency, one per entry of its dependency list and in
\* the order the list declares them, followed by the original task.
C7_RenderedInDeclaredOrder ==
    \A i \in DispatchedDependents :
        /\ \A d \in DepSet(i) : Contains(sent_task[i], Rendered(d))
        /\ StepMarks(sent_task[i]) = StepAt(i).dependencies
        /\ Head(sent_task[i]) = "Context from previous steps:\n"
        /\ Contains(sent_task[i], <<"\n\nYour task: ">> \o StepAt(i).task)

\* C7 witness: a step declared with dependencies <<1, 0>> ran after both
\* finished with output
C7_Witness ==
    \E i \in DispatchedDependents :
        /\ StepAt(i).dependencies = <<1, 0>>
        /\ completed_results[0].result_summary # <<>>
        /\ completed_results[1].result_summary # <<>>
        /\ pc = "returned"

\* the steps whose whole dependency closure lies in the plan and is acyclic
Resolvable(j) ==
    \A m \in {j} \cup DependsOn(j) :
        DepSet(m) \subseteq StepIds /\ m \notin DependsOn(m)

UnknownSteps == {i \in StepIds : StepAt(i).agent \notin KnownAgents}

\* the scheduling loop has ended, by exhausting pending_steps or by break
LoopOver == pc = "returned" \/ exc = "KeyError"

\* C8: a step naming an unknown worker gets a record with a non-empty
\* "unknown" error and empty output without any worker being called, it ends
\* neither the wave nor the run, and when the loop is over every step that
\* can be resolved (siblings and later steps included) has been dispatched
\* once and recorded.
C8_UnknownWorkerIsLocal ==
    Started =>
        /\ \A i \in UnknownSteps :
             /\ invocations[i] = 0
             /\ (pc = "gather" /\ i \in Range(ready_steps)) => i \in DOMAIN results
             /\ i \in DOMAIN completed_results =>
                  /\ completed_results[i].result_summary = <<>>
                  /\ completed_results[i].error # <<>>
                  /\ completed_results[i].error[1] = "Unknown agent: "
                  /\ completed_results[i].error[2] = StepAt(i).agent
        /\ LoopOver =>
             \A j \in StepIds :
                Resolvable(j) =>
                    /\ j \in DOMAIN completed_results
                    /\ j \notin UnknownSteps => invocations[j] = 1

\* C8 witness: an unknown first step, a sibling and a later step that depends
\* on the sibling only; the run returned with outputs for the last two
C8_Witness ==
    /\ pc = "returned" /\ NumSteps = 3
    /\ 0 \in UnknownSteps
    /\ StepAt(1).dependencies = <<>> /\ StepAt(2).dependencies = <<1>>
    /\ completed_results[1].result_summary # <<>>
    /\ completed_results[2].result_summary # <<>>

\* C9: in a valid DAG a step whose worker returned an error stops nothing:
\* during a wave every pending step whose dependencies are recorded is a
\* member of it whether or not those records carry errors, the loop never
\* gives up with steps pending, and the run that returns has a record for
\* every step, each known worker called exactly once.
C9_ErrorsDoNotStopSteps ==
    (Started /\ ValidDAG) =>
        /\ pc = "gather" =>
             \A j \in Range(pending_steps) :
                DepSet(j) \subseteq DOMAIN completed_results
                    => j \in Range(ready_steps)
        /\ exc # "KeyError"
        /\ pc = "returned" =>
             /\ pending_steps = <<>>
             /\ \A j \in StepIds :
                  /\ j \in DOMAIN completed_results
                  /\ j \notin UnknownSteps => invocations[j] = 1
             /\ Len(task_result[1].agent_executions) = NumSteps

\* C9 witness: in a chain of three the first step failed and both dependents,
\* the transitive one included, were called and recorded
C9_Witness ==
    /\ pc = "returned" /\ NumSteps = 3
    /\ 0 \in DepSet(1) /\ 1 \in DepSet(2)
    /\ completed_results[0].error = ChainError
    /\ invocations[1] = 1 /\ invocations[2] = 1
    /\ completed_results[2].result_summary # <<>>

\* C10: every failure of a worker invocation, a raising call included, is
\* captured in that step's record, so the only thing that ends the run with
\* an exception is the unresolvable graph; a valid DAG always returns.
C10_OnlyUnresolvableAborts ==
    pc = "raised" => (exc = "KeyError" /\ ~ValidDAG)

\* the records of the returned TaskResult
Records == task_result[1].agent_executions

\* the combined final string of the returned TaskResult
FinalString == task_result[1].final_result

\* C11: for every plan forming a valid DAG, whatever errors its steps meet,
\* the run ends by returning one record per plan step, record i belonging to
\* step i, together with a combined final string.
C11_ValidDagReturnsAllRecords ==
    (ValidDAG /\ Terminated) =>
        /\ pc = "returned"
        /\ Len(Records) = NumSteps
        /\ \A k \in 1 .. NumSteps :
             /\ Records[k].task = TaskOf(k - 1)
             /\ Records[k].agent = steps[k].agent
        /\ FinalString # <<>>

RECURSIVE SplitOn(_, _)
\* the pieces of a text between the occurrences of the one-token separator
SplitOn(text, sep) ==
    IF \E p \in 1 .. Len(text) : text[p] = sep
    THEN LET p == CHOOSE q \in 1 .. Len(text) :
                     text[q] = sep /\ \A r \in 1 .. q - 1 : text[r] # sep
         IN <<SubSeq(text, 1, p - 1)>> \o SplitOn(SubSeq(text, p + 1, Len(text)), sep)
    ELSE <<text>>

\* the entries a combined final string lists, none for the placeholder
Listed(final) ==
    IF final = <<"No results">> THEN <<>> ELSE SplitOn(final, " | ")

\* "<worker>: <output>" of each record of a list
EntriesOf(recs) ==
    [k \in 1 .. Len(recs) |-> <<recs[k].agent, ": ">> \o recs[k].result_summary]

\* C12 as stated: the combined string lists "<worker>: <output>" for exactly
\* the records whose error is empty, a record with no error and an empty
\* output included.
C12_EveryErrorFreeRecordListed ==
    pc = "returned" =>
        Listed(FinalString) =
            EntriesOf(SelectSeq(Records, LAMBDA e : e.error = <<>>))

\* C12 amended: the combined string lists "<worker>: <output>" for exactly
\* the records whose error is empty and whose output is not empty, in record
\* order; a record with an error or with an empty output is left out.
C12_EveryRecordWithOutputListed ==
    pc = "returned" =>
        Listed(FinalString) =
            EntriesOf(SelectSeq(Records,
                LAMBDA e : e.error = <<>> /\ e.result_summary # <<>>))

\* C12 witness: three records returned, one with output, one with neither
\* output nor error, one with an error; only the first is listed
C12_Witness ==
    /\ pc = "returned" /\ NumSteps = 3
    /\ \E a, b, c \in 1 .. 3 :
         /\ Records[a].result_summary # <<>>
         /\ Records[b].result_summary = <<>> /\ Records[b].error = <<>>
         /\ Records[c].error # <<>>
    /\ Len(Listed(FinalString)) = 1

\* a record qualifies for the combined string
Qualifies(e) == e.result_summary # <<>> /\ e.error = <<>>

\* C13: the combined string is the placeholder "No results" exactly when no
\* record qualifies; otherwise it is the qualifying entries joined by " | ".
C13_PlaceholderIffNothingQualifies ==
    pc = "returned" =>
        LET q == SelectSeq(Records, Qualifies)
        IN /\ (FinalString = <<"No results">>) <=> (q = <<>>)
           /\ q # <<>> => FinalString = StrJoin(<<" | ">>, EntriesOf(q))
           /\ Len(q) > 1 =>
                Len(SelectSeq(FinalString, LAMBDA tok : tok = " | ")) = Len(q) - 1

\* C13 witness: every step of a three-step plan ended with an error and the
\* combined string is the placeholder
C13_Witness ==
    /\ pc = "returned" /\ NumSteps = 3
    /\ \A k \in 1 .. 3 : Records[k].error # <<>>
    /\ FinalString = <<"No results">>

\* C19: wave safety: every step handed to its worker had, at that moment, a
\* record for each id of its dependency list, so the rendering of its
\* dependencies never reads a missing record: the members of the latest wave
\* have all their dependencies recorded and no run ends in the lookup.
C19_WaveSafety ==
    /\ \A i \in Range(ready_steps) : DepSet(i) \subseteq DOMAIN completed_results
    /\ \A i \in DOMAIN sent_task :
         /\ DepSet(i) \subseteq DOMAIN completed_results
         /\ Len(StepMarks(sent_task[i])) = Len(StepAt(i).dependencies)

\* C19 witness: a step with two dependencies is in flight in the second wave
C19_Witness ==
    /\ pc = "gather" /\ waves = 2
    /\ \E i \in InFlight : Cardinality(DepSet(i)) = 2

\* C20: join barrier: while a wave is in flight every step dispatched before
\* it is recorded, the steps dispatched and not yet recorded are members of
\* the current wave, and whenever the loop is at its head (where the next
\* ready list is computed) every dispatched step has returned and is recorded.
C20_JoinBarrier ==
    /\ (DOMAIN sent_task \ DOMAIN completed_results) \subseteq Range(ready_steps)
    /\ pc = "loop" =>
         /\ DOMAIN sent_task \subseteq DOMAIN completed_results
         /\ InFlight \cap DOMAIN sent_task = {}
    /\ pc = "gather" =>
         /\ Range(ready_steps) \cap DOMAIN completed_results = {}
         /\ \A i \in Range(remaining_steps) : i \notin DOMAIN sent_task

\* C20 witness: the second wave is in flight after a first wave of two
\* members, both recorded
C20_Witness ==
    /\ pc = "gather" /\ waves = 2 /\ InFlight # {}
    /\ Cardinality(DOMAIN completed_results) = 2

(* ------------------------ claims on execute_plan ----------------------- *)
\* the dict execute_plan returned
ChainResult == chain_result[1]

\* execute_plan returned an error dict
ChainFailed == cpc = "done" /\ "error" \in DOMAIN ChainResult

\* the chain positions of the invocations made so far
CallPositions == [k \in 1 .. Len(calls) |-> calls[k].at]

\* the chain [add(2,3), multiply("previous",5)]
RoundTripChain ==
    <<ToolStep("add", <<IntVal(2), IntVal(3)>>),
      ToolStep("multiply", <<StrVal(<<"previous">>), IntVal(5)>>)>>

\* C14: the chain [add(2,3), multiply("previous",5)] ends with final result
\* 25 and a log of exactly two entries whose resolved args are [2,3] and
\* [5,5]; in general a placeholder in operation k+1 is logged as the output
\* of operation k.
C14_RoundTrip ==
    /\ (plan = RoundTripChain /\ cpc = "done") =>
         /\ DOMAIN ChainResult = {"final_result", "steps"}
         /\ ChainResult.final_result = IntVal(25)
         /\ Len(ChainResult.steps) = 2
         /\ ChainResult.steps[1].args = <<IntVal(2), IntVal(3)>>
         /\ ChainResult.steps[2].args = <<IntVal(5), IntVal(5)>>
    /\ \A k \in 1 .. Len(steps_log) - 1 :
         \A j \in 1 .. Len(plan[k + 1].args) :
            plan[k + 1].args[j] = StrVal(<<"previous">>)
                => steps_log[k + 1].args[j] = steps_log[k].result

\* C14 witness: execute_plan has returned for the round-trip chain
C14_Witness == plan = RoundTripChain /\ cpc = "done"

\* the first operation of the chain is a known tool that returns
FirstSucceeds ==
    /\ plan[1].tool \in Toolset
    /\ LET a == plan[1].args
       IN /\ \A j \in 1 .. Len(a) :
                a[j] \notin {StrVal(<<"previous">>), StrVal(<<"Previous">>)}
          /\ a[1].t = a[2].t \/ (plan[1].tool = "multiply" /\ "int" \in {a[1].t, a[2].t})
          /\ ~(plan[1].tool = "multiply" /\ a[1].t = "str" /\ a[2].t = "str")

\* C15: a chain whose first operation succeeds and whose second names a tool
\* the toolset does not have returns the unknown-tool error with a log of
\* exactly one entry, that of the first operation; the tool of no operation
\* at or after the second position is invoked.
C15_UnknownSecondHalts ==
    (cpc = "done" /\ Len(plan) >= 2 /\ FirstSucceeds /\ plan[2].tool \notin Toolset)
        => /\ DOMAIN ChainResult = {"error", "steps"}
           /\ ChainResult.error = <<"Unknown tool: ", plan[2].tool>>
           /\ Len(ChainResult.steps) = 1
           /\ ChainResult.steps[1].tool = plan[1].tool
           /\ CallPositions = <<1>>

\* C15 witness: add(2,3) followed by the unknown tool has returned
C15_Witness ==
    /\ cpc = "done" /\ Len(plan) = 2
    /\ plan[1] = ToolStep("add", <<IntVal(2), IntVal(3)>>)
    /\ plan[2].tool = "bogus"
    /\ steps_log # <<>>

\* C16: when the tool invoked for operation k raises, execute_plan returns
\* at once: the error dict carries exactly the log entries of operations
\* 1..k-1, none for operation k, and no operation after k is invoked.
C16_RaiseTruncatesLog ==
    (ChainFailed /\ ChainResult.error[1] # "Unknown tool: ") =>
        LET k == Len(calls)
        IN /\ k >= 1
           /\ CallPositions = [m \in 1 .. k |-> m]
           /\ DOMAIN ChainResult = {"error", "steps"}
           /\ Len(ChainResult.steps) = k - 1
           /\ \A m \in 1 .. k - 1 :
                /\ ChainResult.steps[m].tool = plan[m].tool
                /\ ChainResult.steps[m].args = calls[m].args
           /\ ChainResult.error # <<>>

\* C16 witness: the second operation of a chain raised after the first was
\* logged
C16_Witness ==
    /\ ChainFailed /\ ChainResult.error[1] # "Unknown tool: "
    /\ Len(calls) = 2 /\ Len(ChainResult.steps) = 1

\* C17: when every operation of a non-empty chain has succeeded, the
\* returned dict has no error, its final result is the output of the last
\* operation, and its log has exactly one entry per operation in chain order.
C17_SuccessReturnsLastResult ==
    (cpc = "done" /\ plan # <<>> /\ cursor = Len(plan)) =>
        /\ DOMAIN ChainResult = {"final_result", "steps"}
        /\ Len(ChainResult.steps) = Len(plan)
        /\ \A k \in 1 .. Len(plan) :
             /\ ChainResult.steps[k].tool = plan[k].tool
             /\ ChainResult.steps[k].reasoning = plan[k].reasoning
             /\ ChainResult.steps[k].result =
                  CallTool(plan[k].tool, ChainResult.steps[k].args).value
        /\ ChainResult.final_result = ChainResult.steps[Len(plan)].result
        /\ CallPositions = [m \in 1 .. Len(plan) |-> m]

\* C17 witness: a chain of two operations with different outputs succeeded
C17_Witness ==
    /\ cpc = "done" /\ Len(plan) = 2 /\ cursor = 2
    /\ steps_log[1].result # steps_log[2].result

\* last_result at the time the tool of the k-th invocation was called
LastResultAt(k) == IF k = 1 THEN None ELSE steps_log[k - 1].result

\* C18 as stated: an argument is replaced by last_result if and only if it
\* equals the token "previous"; every other value, a differently-cased
\* spelling included, reaches the tool unchanged.
C18_OnlyExactTokenSubstituted ==
    \A k \in 1 .. Len(calls) :
        \A j \in 1 .. Len(plan[k].args) :
            calls[k].args[j] =
                IF plan[k].args[j] = StrVal(<<"previous">>)
                THEN LastResultAt(k) ELSE plan[k].args[j]

\* C18 amended: an argument is replaced by last_result if and only if its
\* text, lower-cased, is "previous" (so "Previous" is replaced too); every
\* other value reaches the tool unchanged.
C18_AnyCaseTokenSubstituted ==
    \A k \in 1 .. Len(calls) :
        \A j \in 1 .. Len(plan[k].args) :
            calls[k].args[j] =
                IF plan[k].args[j] \in
                       {StrVal(<<"previous">>), StrVal(<<"Previous">>)}
                THEN LastResultAt(k) ELSE plan[k].args[j]

\* C18 witness: the second operation was called with the first one's output
\* in place of "Previous" and with the literal "abc" unchanged
C18_Witness ==
    /\ Len(calls) = 2
    /\ plan[2].args = <<StrVal(<<"Previous">>), StrVal(<<"abc">>)>>
    /\ calls[2].args = <<steps_log[1].result, StrVal(<<"abc">>)>>
    /\ steps_log[1].result.t = "str"

(* ------------------- further claims on the scheduler ------------------- *)
\* no id occurs twice in a sequence
NoRepeats(seq) == \A p, q \in 1 .. Len(seq) : p # q => seq[p] # seq[q]

\* C21: the completed-results table only grows: a step that has a record
\* keeps that very record in every later state, and no step id is stored a
\* second time.
C21_TableOnlyGrows ==
    [][/\ \A i \in DOMAIN completed_results :
             /\ i \in DOMAIN completed_results'
             /\ completed_results'[i] = completed_results[i]
       /\ NoRepeats(completed_keys')
       /\ Range(completed_keys') = DOMAIN completed_results']_all_vars

\* C21 witness: a third wave has stored its record beside those of the two
\* waves before it
C21_Witness ==
    /\ pc = "returned" /\ waves = 3
    /\ completed_keys = <<2, 1, 0>>

\* C22: while calls of a wave are in flight completed_results and
\* pending_steps do not change: a returning member only adds its record to
\* the wave's results, and the table and pending list change only in the
\* step in which the joined wave hands control back to the loop.
C22_MembersWriteNothing ==
    [][/\ (pc = "gather" /\ InFlight # {}) =>
             /\ completed_results' = completed_results
             /\ pending_steps' = pending_steps
       /\ (completed_results' # completed_results) =>
             /\ pc = "gather" /\ InFlight = {} /\ pc' = "loop"
             /\ completed_results' =
                  [i \in DOMAIN completed_results \cup Range(ready_steps) |->
                      IF i \in Range(ready_steps) THEN results[i]
                      ELSE completed_results[i]]]_all_vars

\* C22 witness: in the second wave one member has returned while another is
\* still in flight
C22_Witness ==
    /\ pc = "gather" /\ waves = 2
    /\ InFlight # {} /\ DOMAIN results # {}
    /\ completed_results # <<>>

\* C23: maximal parallelism: in a valid DAG the members of wave n are
\* exactly the steps whose longest dependency chain has n steps (wave 1 for
\* a step without dependencies, otherwise the wave after the latest wave of
\* its dependencies), so no ready step is held back.
C23_EarliestWave ==
    (pc = "gather" /\ ValidDAG) =>
        /\ Range(ready_steps) =
             {i \in StepIds : ChainLength(i, NumSteps) = waves}
        /\ Range(remaining_steps) =
             {i \in StepIds : ChainLength(i, NumSteps) > waves}

\* C23 witness: the second wave of [A, B(A), C(A)] holds both dependents
C23_Witness ==
    /\ pc = "gather" /\ waves = 2 /\ NumSteps = 3
    /\ StepAt(1).dependencies = <<0>> /\ StepAt(2).dependencies = <<0>>
    /\ ready_steps = <<1, 2>>

\* C24: the engine never retries: no step's worker is invoked more than
\* once, and a step that has a record, with or without an error, is neither
\* pending at the head of the loop nor a member of a later wave.
C24_NeverRetries ==
    Started =>
        /\ \A i \in StepIds : invocations[i] <= 1
        /\ \A i \in DOMAIN completed_results :
             /\ pc = "loop" => i \notin Range(pending_steps)
             /\ pc = "gather" => i \notin Range(ready_steps)

\* C24 witness: the run returned after a step failed in the first of two
\* waves
C24_Witness ==
    /\ pc = "returned" /\ waves = 2
    /\ \E i \in StepIds :
         completed_results[i].error = ChainError /\ invocations[i] = 1

\* C25: every record's task is the step's original task text and its agent
\* the step's declared name; a step with dependencies was sent an augmented
\* text that differs from the recorded one.
C25_RecordKeepsOriginalTask ==
    /\ \A i \in DOMAIN completed_results :
         /\ completed_results[i].task = StepAt(i).task
         /\ completed_results[i].agent = StepAt(i).agent
         /\ StepAt(i).dependencies # <<>> =>
              /\ sent_task[i] # completed_results[i].task
              /\ Head(sent_task[i]) = "Context from previous steps:\n"
    /\ \A i \in DOMAIN results :
         results[i].task = StepAt(i).task /\ results[i].agent = StepAt(i).agent

\* C25 witness: a step with a dependency has been called by a known worker
\* and recorded
C25_Witness ==
    \E i \in DOMAIN completed_results :
        /\ StepAt(i).dependencies # <<>>
        /\ invocations[i] = 1
        /\ completed_results[i].result_summary # <<>>

\* the tokens an error text of a record is made of
ErrorTokens == {"chain failed", "Unknown agent: "}

\* C26: a dependency that finished with an error is rendered in the
\* dependent's task as "Step <id> (<worker>): " followed by nothing: the
\* rendering ends at the line break or at the task marker, and no error text
\* appears anywhere in the augmented task.
C26_FailedDependencyRendersEmpty ==
    \A i \in DispatchedDependents :
        /\ Range(sent_task[i]) \cap ErrorTokens = {}
        /\ \A d \in DepSet(i) :
             completed_results[d].error # <<>> =>
                \E p \in 1 .. Len(sent_task[i]) - 5 :
                    /\ SubSeq(sent_task[i], p, p + 4) =
                         <<"Step ", Digits[d + 1], " (", StepAt(d).agent, "): ">>
                    /\ sent_task[i][p + 5] \in {"\n", "\n\nYour task: "}

\* C26 witness: a dependent was dispatched after one of its two dependencies
\* failed in its chain and the other had an unknown worker
C26_Witness ==
    \E i \in DispatchedDependents :
        /\ \E d \in DepSet(i) : completed_results[d].error = ChainError
        /\ \E d \in DepSet(i) : d \in UnknownSteps

LogWellFormed ==
    /\ Len(steps_log) = cursor
    /\ Len(steps_log) <= Len(plan)
    /\ \A k \in 1 .. Len(steps_log) :
         /\ steps_log[k].tool = plan[k].tool
         /\ steps_log[k].args = calls[k].args
         /\ calls[k].at = k
    /\ steps_log # <<>> => last_result = steps_log[Len(steps_log)].result
    /\ steps_log = <<>> => last_result = None

\* C28: at every point of a chain execution the log is append-only (every
\* step keeps the entries there are and adds at most one), its length is the
\* number of operations completed successfully, its entries are in chain
\* order, and when it is not empty last_result is the result of its last
\* entry.
C28_ChainLogInvariant ==
    [][/\ Len(steps_log') \in {Len(steps_log), Len(steps_log) + 1}
       /\ SubSeq(steps_log', 1, Len(steps_log)) = steps_log
       /\ LogWellFormed
       /\ LogWellFormed']_all_vars

\* C28 witness: two operations are logged with different results
C28_Witness ==
    /\ cpc = "run" /\ Len(steps_log) = 2
    /\ steps_log[1].result # steps_log[2].result
    /\ last_result = steps_log[2].result

(* ------------------ scheduling independence and failure ---------------- *)
\* what the worker of step i returned, as kept in its record
WorkerReturn(i) ==
    <<completed_results[i].result_summary, completed_results[i].error>>

\* the outcome the plan and the workers' returns determine: one record per
\* step in plan order and the entries of the records with output, joined
OutcomeOf(returns) ==
    LET recs == [k \in 1 .. NumSteps |->
                    [agent |-> steps[k].agent, task |-> TaskOf(k - 1),
                     result_summary |-> returns[k][1], error |-> returns[k][2]]]
        shown == SelectSeq(recs, Qualifies)
    IN [agent_executions |-> recs,
        final_result |-> IF shown = <<>> THEN <<"No results">>
                         ELSE StrJoin(<<" | ">>, EntriesOf(shown))]

\* C29: for a valid DAG the returned records and combined string are fixed
\* by the plan and by what each step's worker returned, whatever order the
\* calls of a wave came back in: each record holds the return of its own
\* step's worker, each worker was sent the text that the plan and the records
\* of its dependencies determine, and the outcome is the plan-ordered
\* function of these returns.
C29_OutcomeIndependentOfInterleaving ==
    (pc = "returned" /\ ValidDAG) =>
        /\ \A i \in StepIds :
             /\ WorkerReturn(i) \in
                  IF i \in UnknownSteps
                  THEN {<<<<>>, <<"Unknown agent: ", StepAt(i).agent>>>>}
                  ELSE AgentReturns(i)
             /\ sent_task[i] = EffectiveTask(i, completed_results)
        /\ Records = OutcomeOf([k \in 1 .. NumSteps |-> WorkerReturn(k - 1)]).agent_executions
        /\ FinalString = OutcomeOf([k \in 1 .. NumSteps |-> WorkerReturn(k - 1)]).final_result

\* C29 witness: a run of three known workers returned all outputs although
\* in some wave a later member came back before an earlier one
C29_Witness ==
    /\ ValidDAG /\ pc = "returned" /\ NumSteps = 3 /\ overtaken
    /\ UnknownSteps = {}
    /\ \A i \in StepIds : completed_results[i].result_summary = OutputOf(i)

\* C30: in a plan that mixes unsatisfiable steps (in a cycle, behind a
\* dangling id, or depending on such a step) with satisfiable ones, no
\* unsatisfiable step is ever a member of a wave or has its worker invoked,
\* and when the run fails on the empty ready set every satisfiable step has
\* been dispatched and recorded in an earlier wave, its worker invoked
\* exactly once, and the unsatisfiable steps are the ones left pending.
C30_SatisfiableStepsRunBeforeFailure ==
    Started =>
        /\ \A j \in StepIds :
             (\/ invocations[j] # 0
              \/ j \in Range(ready_steps)
              \/ j \in DOMAIN sent_task) => Resolvable(j)
        /\ exc = "KeyError" =>
             /\ Range(pending_steps) = {j \in StepIds : ~Resolvable(j)}
             /\ \A j \in StepIds :
                  Resolvable(j) =>
                     /\ j \in DOMAIN completed_results
                     /\ j \in DOMAIN sent_task
                     /\ j \notin UnknownSteps => invocations[j] = 1
             /\ (\E j \in StepIds : Resolvable(j)) => waves >= 1

\* C30 witness: [A, B(A), C(dangling)] failed on the empty ready set after
\* two waves had invoked A and B
C30_Witness ==
    /\ exc = "KeyError" /\ NumSteps = 3 /\ waves = 2
    /\ Resolvable(0) /\ Resolvable(1) /\ ~Resolvable(2)
    /\ invocations = [i \in StepIds |-> IF i = 2 THEN 0 ELSE 1]

(* ------------------------- partition and edges ------------------------- *)
\* pending_steps and the keys of completed_results split the plan's step ids
Partition ==
    /\ Range(pending_steps) \cap DOMAIN completed_results = {}
    /\ Range(pending_steps) \cup DOMAIN completed_results = StepIds
    /\ NoRepeats(pending_steps)

\* C31: at every boundary of the scheduling loop (the head of an iteration
\* and the exit of the loop) the pending ids and the recorded ids are
\* disjoint and together all step ids of the plan, and the steps whose record
\* an iteration stores are exactly those that leave pending in it.
C31_PendingCompletedPartition ==
    [][/\ (pc' \in {"loop", "returned"} \/ exc' = "KeyError") => Partition'
       /\ (DOMAIN completed_results' \ DOMAIN completed_results) =
             IF pc = "planner" THEN {}
             ELSE Range(pending_steps) \ Range(pending_steps')]_all_vars

\* C31 witness: at the head of the second iteration one step is recorded and
\* two are pending
C31_Witness ==
    /\ pc = "loop" /\ waves = 1 /\ NumSteps = 3
    /\ Cardinality(DOMAIN completed_results) = 1
    /\ Len(pending_steps) = 2

\* the steps that list their own id among their dependencies
SelfDependent == {i \in StepIds : i \in DepSet(i)}

\* C32: a step that lists its own id as a dependency is never ready and its
\* worker is never invoked, and the run ends in the unresolvable-graph
\* failure (the KeyError after the break) without a result.
C32_SelfDependencyEndsUnresolvable ==
    (Started /\ SelfDependent # {}) =>
        /\ \A i \in SelfDependent :
             /\ invocations[i] = 0
             /\ i \notin Range(ready_steps)
             /\ i \notin DOMAIN sent_task
             /\ i \notin DOMAIN completed_results
        /\ Terminated => (exc = "KeyError" /\ task_result = <<>>)

\* C33: for the empty plan the run executes no wave, invokes no worker and
\* returns an empty record list with the combined string "No results"; it
\* never ends with an exception.
C33_EmptyPlanReturnsNoResults ==
    (Started /\ NumSteps = 0) =>
        /\ waves = 0
        /\ invocations = <<>> /\ sent_task = <<>>
        /\ pc \in {"loop", "returned"}
        /\ exc = ""
        /\ pc = "returned" =>
             /\ task_result[1].agent_executions = <<>>
             /\ task_result[1].final_result = <<"No results">>

\* C33 witness: the run of the empty plan has returned
C33_Witness == NumSteps = 0 /\ pc = "returned"

\* the positions of the first operation's arguments that hold the placeholder
FirstPlaceholders ==
    {j \in 1 .. Len(plan[1].args) : IsPrevious(plan[1].args[j])}

\* C36: when the first operation of a chain names a known tool and uses the
\* placeholder, the tool is invoked with None in the placeholder's position:
\* the chain is not rejected before the invocation, and what comes back is
\* the outcome of that call.
C36_FirstPlaceholderIsNone ==
    (cpc = "done" /\ plan # <<>> /\ plan[1].tool \in Toolset
                  /\ FirstPlaceholders # {}) =>
        /\ calls # <<>>
        /\ calls[1].at = 1
        /\ \A j \in 1 .. Len(plan[1].args) :
             calls[1].args[j] = IF j \in FirstPlaceholders THEN None
                                ELSE plan[1].args[j]
        /\ CallTool(plan[1].tool, calls[1].args).raised =>
             /\ ChainResult = [error |-> CallTool(plan[1].tool, calls[1].args).error,
                               steps |-> <<>>]
             /\ Len(calls) = 1

\* C36 witness: add("previous", 2) was the first operation and was called
C36_Witness ==
    /\ cpc = "done" /\ plan # <<>>
    /\ plan[1] = ToolStep("add", <<StrVal(<<"previous">>), IntVal(2)>>)
    /\ calls = <<Invocation(1, <<None, IntVal(2)>>)>>

\* C37: for the empty chain no tool is invoked and the returned dict is a
\* success: final_result None, an empty log and no error key.
C37_EmptyChainSucceeds ==
    (plan = <<>> /\ cpc \in {"run", "done", "agent_returned"}) =>
        /\ calls = <<>>
        /\ steps_log = <<>>
        /\ cpc # "run" =>
             /\ DOMAIN ChainResult = {"final_result", "steps"}
             /\ ChainResult.final_result = None
             /\ ChainResult.steps = <<>>

\* C37 witness: execute_plan has returned for the empty chain
C37_Witness == plan = <<>> /\ cpc = "done"

(* ----------------------------- ReAct loop ------------------------------ *)
\* C34: react_workflow makes at most max_steps planner calls and at most
\* max_steps agent calls, the returned total_steps is the number of recorded
\* steps and is at most max_steps, and every run in which the calls come
\* back ends.
C34_ReactLoopBounded ==
    /\ [](/\ planner_calls <= max_steps
          /\ agent_calls <= max_steps
          /\ agent_calls <= planner_calls
          /\ Len(react_steps) <= max_steps
          /\ rpc = "returned" =>
               /\ react_result[1].total_steps = Len(react_result[1].steps)
               /\ react_result[1].steps = react_steps
               /\ react_result[1].total_steps <= max_steps)
    /\ <>ReactTerminated

\* C34 witness: a run that used all of its three iterations, each with an
\* agent call, has returned
C34_Witness ==
    /\ rpc = "returned" /\ max_steps = 3
    /\ planner_calls = 3 /\ agent_calls = 3
    /\ react_result[1].total_steps = 3

\* C35: a planner answer declaring the goal achieved invokes no agent and
\* records no step in its iteration and ends the loop at once with
\* goal_achieved true and the planner's final answer; a run that returns
\* otherwise has used up its max_steps >= 1 iterations and returns
\* goal_achieved false with the fallback answer quoting the observation of
\* the last recorded step.
C35_AchievedStopsAtOnce ==
    [][/\ (rpc = "planner" /\ rpc' # "raised" /\ decision'[1].goal_achieved) =>
            /\ agent_calls' = agent_calls
            /\ react_steps' = react_steps
            /\ planner_calls' = planner_calls
            /\ rpc' = "returned"
            /\ react_result'[1].goal_achieved = TRUE
            /\ react_result'[1].final_answer = decision'[1].final_answer
       /\ (rpc # "returned" /\ rpc' = "returned") =>
            /\ react_result'[1].goal_achieved =
                 (rpc = "planner" /\ decision'[1].goal_achieved)
            /\ ~react_result'[1].goal_achieved =>
                 /\ max_steps >= 1
                 /\ step_num = max_steps
                 /\ Len(react_steps) = max_steps
                 /\ react_result'[1].final_answer =
                      CouldNotAchieve(max_steps,
                          react_steps[Len(react_steps)].observation)]_all_vars

\* C35 witness: the planner declared the goal achieved in the second
\* iteration, after one recorded step
C35_Witness ==
    /\ rpc = "returned"
    /\ react_result[1].goal_achieved
    /\ planner_calls = 2 /\ Len(react_steps) = 1

====
